---- MODULE Spec2Model ----
(***************************************************************************)
(* Oracle settlement backend: market lifecycle, report intake, settlement  *)
(* finalisation with a transactional outbox, Merkle batching and the relay *)
(* worker.  The relational store is modelled as insertion-ordered tables   *)
(* (sequences of rows, a row's id being its index); the reports table,     *)
(* whose order no component reads, is a bag of rows.  Every SQL statement  *)
(* issued on the pool is one atomic step and every transaction takes       *)
(* effect atomically at its commit.                                        *)
(***************************************************************************)
EXTENDS Integers, Sequences, FiniteSets, Bags, TLC

\* ------------------------------------------------------------------ bounds
MaxMarkets == 1
MaxTime == 1
MaxSubmits == 7
MaxEntries == 2
MaxReports == 4
MaxLeaves == 5
MaxFailures == 1
NumClients == 2
NumResolvers == 2
NumBatchers == 2
NumWorkers == 2

MarketIds == 1..MaxMarkets
Times == 0..MaxTime
Keys == {"k1", "k2", "k3"}
Values == {100, 102}
Clients == 1..NumClients
Resolvers == 1..NumResolvers
Batchers == 1..NumBatchers
Workers == 1..NumWorkers

\* ------------------------------------------------------- program constants
MinReports == 3
SpreadNum == 1
SpreadDen == 100
ResolveLimit == 10
WorkerLimit == 10
RetryBudget == 5
DigestLen == 32

VARIABLES now, markets, reports, settlements, outbox, batches, batch_items,
          ledger, http, resolver, batcher, worker

tables == <<markets, reports, settlements, outbox, batches, batch_items>>
vars == <<now, markets, reports, settlements, outbox, batches, batch_items,
          ledger, http, resolver, batcher, worker>>

\* ---------------------------------------------------------------- helpers
Range(s) == {s[i] : i \in 1..Len(s)}

Min2(a, b) == IF a <= b THEN a ELSE b

RECURSIVE SumSeq(_)
SumSeq(s) == IF s = <<>> THEN 0 ELSE Head(s) + SumSeq(Tail(s))

\* the rows of table t whose market_id is m
RowsOf(t, m) == SelectSeq(t, LAMBDA row : row.market_id = m)

\* all orderings of the finite set S taken n at a time, without repetition
RECURSIVE Orderings(_, _)
Orderings(S, n) ==
    IF n = 0 THEN {<<>>}
    ELSE UNION {{Append(q, x) : x \in S \ Range(q)} : q \in Orderings(S, n - 1)}

\* ------------------------------------------------- store schema (unique keys)
\* UNIQUE (market_id, idempotency_key) on reports
ReportKeyFree(t, m, k) ==
    \A row \in BagToSet(t) : ~(row.market_id = m /\ row.idempotency_key = k)

\* a store whose tables carry no unique key on market_id
MarketIdFree_unenforced(t, m) == TRUE

\* UNIQUE (market_id) on settlements, on outbox and on batch_items
MarketIdFree(t, m) == \A i \in 1..Len(t) : t[i].market_id # m

\* --------------------------------------------------------- try_resolve
None == [some |-> FALSE]
Some(x) == [some |-> TRUE, val |-> x]

Sorted(values) ==
    CHOOSE q \in [1..Len(values) -> Range(values)] :
        /\ \A i, j \in 1..Len(values) : i < j => q[i] <= q[j]
        /\ \A v \in Range(values) :
              Cardinality({i \in 1..Len(values) : q[i] = v})
            = Cardinality({i \in 1..Len(values) : values[i] = v})

\* let diff = (max - min) / min: what IEEE-754 division gives, max >= min
SpreadQuotient(min, max) ==
    IF min # 0 THEN "finite" ELSE IF max = min THEN "NaN" ELSE "+inf"

\* the test written with < instead of <=
SpreadWithin_strict(min, max) ==
    IF min > 0 THEN (max - min) * SpreadDen < SpreadNum * min
    ELSE IF min = 0 THEN FALSE
    ELSE TRUE

\* diff <= 0.01 for diff = (max - min) / min, evaluated as IEEE-754 does:
\* min = 0 gives NaN (max = 0) or +infinity (max > 0), both fail the test;
\* a negative min gives a quotient <= 0, which always passes
SpreadWithin(min, max) ==
    IF min > 0 THEN (max - min) * SpreadDen <= SpreadNum * min
    ELSE IF min = 0 THEN FALSE
    ELSE TRUE

\* the spread test left out
try_resolve_any_spread(values) ==
    IF Len(values) < MinReports THEN None
    ELSE LET sorted == Sorted(values)
         IN Some([num |-> SumSeq(sorted), den |-> Len(sorted)])

\* the length test off by one
try_resolve_two_suffice(values) ==
    IF Len(values) < MinReports - 1 THEN None
    ELSE LET sorted == Sorted(values)
             min == sorted[1]
             max == sorted[Len(sorted)]
         IN IF SpreadWithin(min, max)
            THEN Some([num |-> SumSeq(sorted), den |-> Len(sorted)])
            ELSE None

\* the outcome is the exact mean, kept as the fraction num/den
try_resolve(values) ==
    IF Len(values) < MinReports THEN None
    ELSE LET sorted == Sorted(values)
             min == sorted[1]
             max == sorted[Len(sorted)]
         IN IF SpreadWithin(min, max)
            THEN Some([num |-> SumSeq(sorted), den |-> Len(sorted)])
            ELSE None

\* the value the local `diff` takes in a call of try_resolve: the division
\* is made for every input that passes the length test
try_resolve_diff(values) ==
    IF Len(values) < MinReports THEN "not evaluated"
    ELSE LET sorted == Sorted(values)
         IN SpreadQuotient(sorted[1], sorted[Len(sorted)])

\* `outcome as u64`: truncation toward zero, negative values saturate to 0
OutcomeU64(outcome) ==
    IF outcome.num < 0 THEN 0 ELSE outcome.num \div outcome.den

\* ------------------------------------------------------------ statements
\* the auto-close UPDATE without its status condition
auto_close_update_any_status(t, at) ==
    [i \in 1..Len(t) |->
        IF t[i].closes_at <= at THEN [t[i] EXCEPT !.status = "CLOSED"] ELSE t[i]]

\* UPDATE markets SET status = 'CLOSED' WHERE status = 'OPEN' AND closes_at <= $1
auto_close_update(t, at) ==
    [i \in 1..Len(t) |->
        IF t[i].status = "OPEN" /\ t[i].closes_at <= at
        THEN [t[i] EXCEPT !.status = "CLOSED"]
        ELSE t[i]]

\* the flip conditioned on the wrong status
resolve_update_from_open(t, m) ==
    [i \in 1..Len(t) |->
        IF i = m /\ t[i].status = "OPEN"
        THEN [t[i] EXCEPT !.status = "RESOLVED"]
        ELSE t[i]]

\* UPDATE markets SET status = 'RESOLVED' WHERE id = $1 AND status = 'CLOSED'
resolve_update(t, m) ==
    [i \in 1..Len(t) |->
        IF i = m /\ t[i].status = "CLOSED"
        THEN [t[i] EXCEPT !.status = "RESOLVED"]
        ELSE t[i]]

\* SELECT id, closes_at FROM markets WHERE status = 'CLOSED' LIMIT 10
ClosedIds(t) == {i \in 1..Len(t) : t[i].status = "CLOSED"}

\* the rows of a bag as a sequence, each repeated as often as it occurs
RECURSIVE SeqOfBag(_)
SeqOfBag(B) ==
    IF BagToSet(B) = {} THEN <<>>
    ELSE LET row == CHOOSE x \in BagToSet(B) : TRUE
         IN <<row>> \o SeqOfBag(B (-) SetToBag({row}))

ReportsOf(t, m) == SelectSeq(SeqOfBag(t), LAMBDA row : row.market_id = m)

\* SELECT value FROM reports WHERE market_id = $1
ReportValues(t, m) ==
    LET rows == ReportsOf(t, m) IN [i \in 1..Len(rows) |-> rows[i].value]

\* hex::encode of a 32-byte digest
HexOfDigest == [valid |-> TRUE, nbytes |-> DigestLen]

\* serde_json::to_value(&SettlementPayload {..})
SettlementPayload(m, outcome, at) ==
    [market_id |-> m, market_hash_hex |-> HexOfDigest, leaf_hex |-> HexOfDigest,
     outcome_u64 |-> OutcomeU64(outcome), ts |-> at]

SettlementRow(m, outcome, at) ==
    [market_id |-> m, outcome |-> outcome, decided_at |-> at]

\* VALUES ($1, $2, $3, 'PENDING', 0, NULL, $4, $5)
OutboxRow(m, outcome, at) ==
    [market_id |-> m, payload |-> SettlementPayload(m, outcome, at),
     status |-> "PENDING", retries |-> 0, last_error |-> "NULL",
     created_at |-> at]

\* ------------------------------------------------------------------ Init
IdleRequest == [pc |-> "idle", route |-> "", market_id |-> 0,
                idempotency_key |-> "", value |-> 0, resp |-> 0]
IdleResolver == [pc |-> "sleep", queue |-> <<>>, now |-> 0, outcome |-> None]
IdleBatcher == [pc |-> "sleep", rows |-> <<>>]
IdleWorker == [pc |-> "sleep", rows |-> <<>>, result |-> ""]

Init ==
    /\ now = 0
    /\ markets = <<>>
    /\ reports = EmptyBag
    /\ settlements = <<>>
    /\ outbox = <<>>
    /\ batches = <<>>
    /\ batch_items = <<>>
    /\ ledger = <<>>
    /\ http = [c \in Clients |-> IdleRequest]
    /\ resolver = [r \in Resolvers |-> IdleResolver]
    /\ batcher = [b \in Batchers |-> IdleBatcher]
    /\ worker = [w \in Workers |-> IdleWorker]

\* ----------------------------------------------------------------- clock
Tick ==
    /\ now < MaxTime
    /\ now' = now + 1
    /\ UNCHANGED <<tables, ledger, http, resolver, batcher, worker>>

\* ------------------------------------------------------------------ HTTP
\* the closes_at text of a request body: an RFC 3339 timestamp or not
ClosesAtTexts ==
    {[rfc3339 |-> TRUE, at |-> t] : t \in Times} \cup {[rfc3339 |-> FALSE]}

\* chrono::DateTime::parse_from_rfc3339
parse_from_rfc3339(text) == IF text.rfc3339 THEN Some(text.at) ELSE None

\* the handler storing the text as it came, unparsed
create_market_response_unparsed(t, text) ==
    [resp |-> 200,
     rows |-> Append(t, [closes_at |-> IF text.rfc3339 THEN text.at ELSE 0,
                         status |-> "OPEN"])]

\* POST /markets: the response and the markets table it leaves
create_market_response(t, text) ==
    LET closes_at == parse_from_rfc3339(text)
    IN IF ~closes_at.some THEN [resp |-> 400, rows |-> t]
       ELSE [resp |-> 200,
             rows |-> Append(t, [closes_at |-> closes_at.val, status |-> "OPEN"])]

\* POST /markets
create_market(c, text) ==
    /\ http[c].pc = "idle"
    /\ text.rfc3339 => Len(markets) < MaxMarkets
    /\ LET res == create_market_response(markets, text)
       IN /\ markets' = res.rows
          /\ http' = [http EXCEPT ![c] =
                [IdleRequest EXCEPT !.route = "markets", !.resp = res.resp]]
    /\ UNCHANGED <<now, reports, settlements, outbox, batches, batch_items,
                   ledger, resolver, batcher, worker>>

\* the handler without its status test
create_report_check_any_status(c, m, k, v) ==
    /\ http[c].pc = "idle"
    /\ http' = [http EXCEPT ![c] =
          IF m > Len(markets)
          THEN [IdleRequest EXCEPT !.route = "reports", !.resp = 404]
          ELSE [pc |-> "insert", route |-> "reports", market_id |-> m,
                idempotency_key |-> k, value |-> v, resp |-> 0]]
    /\ UNCHANGED <<now, tables, ledger, resolver, batcher, worker>>

\* POST /markets/{id}/reports, first store operation: SELECT status
create_report_check(c, m, k, v) ==
    /\ http[c].pc = "idle"
    /\ http' = [http EXCEPT ![c] =
          IF m > Len(markets)
          THEN [IdleRequest EXCEPT !.route = "reports", !.resp = 404]
          ELSE IF markets[m].status # "OPEN"
          THEN [IdleRequest EXCEPT !.route = "reports", !.resp = 400]
          ELSE [pc |-> "insert", route |-> "reports", market_id |-> m,
                idempotency_key |-> k, value |-> v, resp |-> 0]]
    /\ UNCHANGED <<now, tables, ledger, resolver, batcher, worker>>

\* the INSERT written as an upsert (ON CONFLICT ... DO UPDATE SET value)
insert_report_upsert(t, m, k, v) ==
    [ok |-> TRUE,
     rows |-> SetToBag({row \in BagToSet(t) :
                            ~(row.market_id = m /\ row.idempotency_key = k)})
              (+) SetToBag({[market_id |-> m, idempotency_key |-> k, value |-> v]})]

\* INSERT INTO reports ...: the row, or the store's unique violation (23505)
insert_report(t, m, k, v) ==
    IF ReportKeyFree(t, m, k)
    THEN [ok |-> TRUE,
          rows |-> t (+) SetToBag({[market_id |-> m, idempotency_key |-> k,
                                    value |-> v]})]
    ELSE [ok |-> FALSE, rows |-> t]

\* POST /markets/{id}/reports, second store operation: INSERT
create_report_insert(c) ==
    /\ http[c].pc = "insert"
    /\ LET q == http[c]
           res == insert_report(reports, q.market_id, q.idempotency_key, q.value)
       IN /\ reports' = res.rows
          /\ http' = [http EXCEPT ![c] =
                [IdleRequest EXCEPT !.route = "reports",
                                    !.resp = IF res.ok THEN 200 ELSE 409]]
    /\ UNCHANGED <<now, markets, settlements, outbox, batches, batch_items,
                   ledger, resolver, batcher, worker>>

\* --------------------------------------------------- Lifecycle Scheduler
\* resolver_loop wakes: auto_close_markets
auto_close_markets(r) ==
    /\ resolver[r].pc = "sleep"
    /\ markets' = auto_close_update(markets, now)
    /\ resolver' = [resolver EXCEPT ![r].pc = "select"]
    /\ UNCHANGED <<now, reports, settlements, outbox, batches, batch_items,
                   ledger, http, batcher, worker>>

\* resolve_markets: the SELECT of up to 10 CLOSED markets, in any order
resolve_markets_select(r) ==
    /\ resolver[r].pc = "select"
    /\ LET closed == ClosedIds(markets)
           n == Min2(ResolveLimit, Cardinality(closed))
       IN \E q \in Orderings(closed, n) :
            resolver' = [resolver EXCEPT ![r] =
                IF n = 0 THEN IdleResolver
                ELSE [pc |-> "loop", queue |-> q, now |-> now, outcome |-> None]]
    /\ UNCHANGED <<now, tables, ledger, http, batcher, worker>>

\* the elements of a set of ids in ascending order
RECURSIVE AscendingIds(_)
AscendingIds(S) ==
    IF S = {} THEN <<>>
    ELSE LET x == CHOOSE y \in S : \A z \in S : y <= z
         IN <<x>> \o AscendingIds(S \ {x})

\* resolve_markets: the SELECT on a store that returns rows in the order of
\* their ids, any 10 of the CLOSED markets when there are more
resolve_markets_select_stored(r) ==
    /\ resolver[r].pc = "select"
    /\ LET closed == ClosedIds(markets)
           n == Min2(ResolveLimit, Cardinality(closed))
       IN \E S \in SUBSET closed :
            /\ Cardinality(S) = n
            /\ resolver' = [resolver EXCEPT ![r] =
                    IF n = 0 THEN IdleResolver
                    ELSE [pc |-> "loop", queue |-> AscendingIds(S), now |-> now,
                          outcome |-> None]]
    /\ UNCHANGED <<now, tables, ledger, http, batcher, worker>>

\* the loop's next state once the head of the queue has been dealt with
NextMarket(st) ==
    IF Len(st.queue) <= 1 THEN IdleResolver
    ELSE [st EXCEPT !.pc = "loop", !.queue = Tail(st.queue), !.outcome = None]

\* resolve_markets: one iteration up to the call of finalize_market
resolve_markets_examine(r) ==
    /\ resolver[r].pc = "loop"
    /\ LET st == resolver[r]
           m == Head(st.queue)
           res == try_resolve(ReportValues(reports, m))
       IN resolver' = [resolver EXCEPT ![r] =
            IF st.now < markets[m].closes_at THEN NextMarket(st)
            ELSE IF res.some
            THEN [st EXCEPT !.pc = "finalize", !.outcome = res]
            ELSE NextMarket(st)]
    /\ UNCHANGED <<now, tables, ledger, http, batcher, worker>>

\* finalize_market without the outbox insert (the revision that called the
\* ledger itself)
finalize_market_no_outbox(r) ==
    /\ resolver[r].pc = "finalize"
    /\ LET st == resolver[r]
           m == Head(st.queue)
       IN IF MarketIdFree(settlements, m)
          THEN /\ settlements' = Append(settlements, SettlementRow(m, st.outcome.val, now))
               /\ markets' = [i \in 1..Len(markets) |->
                     IF i = m /\ markets[i].status = "CLOSED"
                     THEN [markets[i] EXCEPT !.status = "RESOLVED"]
                     ELSE markets[i]]
               /\ resolver' = [resolver EXCEPT ![r] = NextMarket(st)]
          ELSE /\ resolver' = [resolver EXCEPT ![r] = [st EXCEPT !.pc = "panicked"]]
               /\ UNCHANGED <<markets, settlements>>
    /\ UNCHANGED <<now, reports, outbox, ledger, batches, batch_items, http,
                   batcher, worker>>

\* finalize_market calling the ledger itself once its transaction is
\* committed (the revision before the outbox worker), the ledger being down
finalize_market_direct_submit(r) ==
    /\ resolver[r].pc = "finalize"
    /\ LET st == resolver[r]
           m == Head(st.queue)
       IN IF MarketIdFree(settlements, m) /\ MarketIdFree(outbox, m)
          THEN /\ settlements' = Append(settlements, SettlementRow(m, st.outcome.val, now))
               /\ markets' = resolve_update(markets, m)
               /\ outbox' = Append(outbox, OutboxRow(m, st.outcome.val, now))
               /\ ledger' = Append(ledger, [ok |-> 0, err |-> 1])
               /\ resolver' = [resolver EXCEPT ![r] = NextMarket(st)]
          ELSE /\ resolver' = [resolver EXCEPT ![r] = [st EXCEPT !.pc = "panicked"]]
               /\ UNCHANGED <<markets, settlements, outbox, ledger>>
    /\ UNCHANGED <<now, reports, batches, batch_items, http, batcher, worker>>

\* finalize_market: the transaction (settlement insert, conditional flip,
\* outbox insert, commit).  A statement the store rejects makes unwrap()
\* panic: the transaction is rolled back and the scheduler task ends.
finalize_market(r) ==
    /\ resolver[r].pc = "finalize"
    /\ LET st == resolver[r]
           m == Head(st.queue)
       IN IF MarketIdFree(settlements, m) /\ MarketIdFree(outbox, m)
          THEN /\ settlements' = Append(settlements, SettlementRow(m, st.outcome.val, now))
               /\ markets' = resolve_update(markets, m)
               /\ outbox' = Append(outbox, OutboxRow(m, st.outcome.val, now))
               /\ ledger' = Append(ledger, [ok |-> 0, err |-> 0])
               /\ resolver' = [resolver EXCEPT ![r] = NextMarket(st)]
          ELSE /\ resolver' = [resolver EXCEPT ![r] = [st EXCEPT !.pc = "panicked"]]
               /\ UNCHANGED <<markets, settlements, outbox, ledger>>
    /\ UNCHANGED <<now, reports, batches, batch_items, http, batcher, worker>>

\* ------------------------------------------------------------ proof.rs
\* Sha256 is modelled as an injective constructor over what it is fed
ZeroDigest == [zero |-> DigestLen]

hash_leaf(data) == [leaf |-> data]

HashPair(left, right) == [left |-> left, right |-> right]

\* one level that drops an unpaired last node
MerkleLevel_drop_odd(leaves) ==
    [i \in 1..(Len(leaves) \div 2) |-> HashPair(leaves[2 * i - 1], leaves[2 * i])]

\* one level: leaves.chunks(2), an odd last chunk paired with itself
MerkleLevel(leaves) ==
    [i \in 1..((Len(leaves) + 1) \div 2) |->
        HashPair(leaves[2 * i - 1],
                 IF 2 * i <= Len(leaves) THEN leaves[2 * i] ELSE leaves[2 * i - 1])]

RECURSIVE build_merkle_root(_)
build_merkle_root(leaves) ==
    IF Len(leaves) = 0 THEN ZeroDigest
    ELSE IF Len(leaves) = 1 THEN leaves[1]
    ELSE build_merkle_root(MerkleLevel(leaves))

\* --------------------------------------------------- Batching Scheduler
\* the SELECT without its anti-join: every settlement, batched or not
UnbatchedIds_all(S, items) == 1..Len(S)

\* SELECT s.* FROM settlements s LEFT JOIN batch_items b ON ... WHERE b.market_id IS NULL
UnbatchedIds(S, items) ==
    {i \in 1..Len(S) : \A j \in 1..Len(items) : items[j].market_id # S[i].market_id}

\* format!("{}:{}:{}", market_id, outcome, decided_at) hashed by hash_leaf
SettlementLeaf(row) == hash_leaf(<<row.market_id, row.outcome, row.decided_at>>)

LeavesOf(rows) == [i \in 1..Len(rows) |-> SettlementLeaf(rows[i])]

\* create_batch: the anti-join SELECT; the store returns the rows in any order
create_batch_select(b) ==
    /\ batcher[b].pc = "sleep"
    /\ LET ids == UnbatchedIds(settlements, batch_items)
       IN \E q \in Orderings(ids, Cardinality(ids)) :
            batcher' = [batcher EXCEPT ![b] =
                IF ids = {} THEN IdleBatcher
                ELSE [pc |-> "commit",
                      rows |-> [i \in 1..Len(q) |-> settlements[q[i]]]]]
    /\ UNCHANGED <<now, tables, ledger, http, resolver, worker>>

\* INSERT INTO batch_items (batch_id, market_id), one row after the other;
\* ok is FALSE when the store rejects one of them
RECURSIVE insert_batch_items(_, _, _)
insert_batch_items(t, batch_id, rows) ==
    IF rows = <<>> THEN [ok |-> TRUE, rows |-> t]
    ELSE IF MarketIdFree(t, Head(rows).market_id)
    THEN insert_batch_items(
            Append(t, [batch_id |-> batch_id, market_id |-> Head(rows).market_id]),
            batch_id, Tail(rows))
    ELSE [ok |-> FALSE, rows |-> t]

\* create_batch without its transaction: the Batch row and the items inserted
\* before a rejected one stay in the store
create_batch_commit_no_tx(b) ==
    /\ batcher[b].pc = "commit"
    /\ LET rows == batcher[b].rows
           root == build_merkle_root(LeavesOf(rows))
           batch_id == Len(batches) + 1
           res == insert_batch_items(batch_items, batch_id, rows)
       IN /\ batches' = Append(batches, [merkle_root |-> root, created_at |-> now])
          /\ batch_items' = res.rows
          /\ batcher' = [batcher EXCEPT ![b] =
                IF res.ok THEN IdleBatcher ELSE [@ EXCEPT !.pc = "panicked"]]
    /\ UNCHANGED <<now, markets, reports, settlements, outbox, ledger, http,
                   resolver, worker>>

\* create_batch: the root and the transaction (batch insert, item inserts,
\* commit); a rejected insert panics, which rolls the transaction back
create_batch_commit(b) ==
    /\ batcher[b].pc = "commit"
    /\ LET rows == batcher[b].rows
           root == build_merkle_root(LeavesOf(rows))
           batch_id == Len(batches) + 1
           res == insert_batch_items(batch_items, batch_id, rows)
       IN IF res.ok
          THEN /\ batches' = Append(batches, [merkle_root |-> root, created_at |-> now])
               /\ batch_items' = res.rows
               /\ batcher' = [batcher EXCEPT ![b] = IdleBatcher]
          ELSE /\ batcher' = [batcher EXCEPT ![b].pc = "panicked"]
               /\ UNCHANGED <<batches, batch_items>>
    /\ UNCHANGED <<now, markets, reports, settlements, outbox, ledger, http,
                   resolver, worker>>

\* --------------------------------------------------- Outbox Relay Worker
PendingIds(t) == {i \in 1..Len(t) : t[i].status = "PENDING"}

\* the rows of ids taken n at a time, oldest created_at first, rows of equal
\* created_at in any order
RECURSIVE OldestFirst(_, _, _)
OldestFirst(t, ids, n) ==
    IF n = 0 THEN {<<>>}
    ELSE UNION {{<<x>> \o q : q \in OldestFirst(t, ids \ {x}, n - 1)} :
                   x \in {y \in ids : \A z \in ids : t[y].created_at <= t[z].created_at}}

\* the SELECT ordered by id instead of created_at
PendingBatches_by_id(t) ==
    LET ids == PendingIds(t)
        n == Min2(WorkerLimit, Cardinality(ids))
    IN OldestFirst([i \in 1..Len(t) |-> [created_at |-> i]], ids, n)

\* SELECT id, payload, retries FROM outbox WHERE status = 'PENDING'
\* ORDER BY created_at ASC LIMIT 10: any order that created_at allows
PendingBatches(t) ==
    LET ids == PendingIds(t)
        n == Min2(WorkerLimit, Cardinality(ids))
    IN OldestFirst(t, ids, n)

\* the decoding steps of the loop body: "" or the error the worker records
PayloadError(payload) ==
    IF DOMAIN payload # {"market_id", "market_hash_hex", "leaf_hex", "outcome_u64", "ts"}
    THEN "bad payload json"
    ELSE IF ~payload.market_hash_hex.valid THEN "bad market_hash hex"
    ELSE IF ~payload.leaf_hex.valid THEN "bad leaf hex"
    ELSE IF payload.market_hash_hex.nbytes # DigestLen
            \/ payload.leaf_hex.nbytes # DigestLen
    THEN "hash/leaf wrong length (expected 32 bytes)"
    ELSE ""

\* a decode failure handled like a ledger failure: retries counted
mark_failed_counts_retry(t, id, error) ==
    [t EXCEPT ![id] = [@ EXCEPT !.status = "FAILED", !.last_error = error,
                                !.retries = @ + 1]]

\* UPDATE outbox SET status = 'FAILED', last_error = $1 WHERE id = $2
mark_failed(t, id, error) ==
    [t EXCEPT ![id] = [@ EXCEPT !.status = "FAILED", !.last_error = error]]

\* the SENT update leaving last_error as it was
mark_sent_keeps_error(t, id) ==
    [t EXCEPT ![id] = [@ EXCEPT !.status = "SENT"]]

\* UPDATE outbox SET status = 'SENT', last_error = NULL WHERE id = $1
mark_sent(t, id) ==
    [t EXCEPT ![id] = [@ EXCEPT !.status = "SENT", !.last_error = "NULL"]]

\* the budget test written with >= instead of >
mark_retry_at_budget(t, id, retries, error) ==
    LET next_retries == retries + 1
        next_status == IF next_retries >= RetryBudget THEN "FAILED" ELSE "PENDING"
    IN [t EXCEPT ![id] = [@ EXCEPT !.retries = next_retries,
                                   !.last_error = error,
                                   !.status = next_status]]

\* the budget test made on the retries read, not on the incremented value
mark_retry_stale_test(t, id, retries, error) ==
    LET next_retries == retries + 1
        next_status == IF retries > RetryBudget THEN "FAILED" ELSE "PENDING"
    IN [t EXCEPT ![id] = [@ EXCEPT !.retries = next_retries,
                                   !.last_error = error,
                                   !.status = next_status]]

\* the UPDATE binding the retries read instead of the incremented value
mark_retry_no_increment(t, id, retries, error) ==
    LET next_retries == retries + 1
        next_status == IF next_retries > RetryBudget THEN "FAILED" ELSE "PENDING"
    IN [t EXCEPT ![id] = [@ EXCEPT !.retries = retries,
                                   !.last_error = error,
                                   !.status = next_status]]

\* UPDATE outbox SET retries = $1, last_error = $2, status = $3 WHERE id = $4
mark_retry(t, id, retries, error) ==
    LET next_retries == retries + 1
        next_status == IF next_retries > RetryBudget THEN "FAILED" ELSE "PENDING"
    IN [t EXCEPT ![id] = [@ EXCEPT !.retries = next_retries,
                                   !.last_error = error,
                                   !.status = next_status]]

\* the worker's next state once the head row has been dealt with
NextRow(st) ==
    IF Len(st.rows) <= 1 THEN IdleWorker
    ELSE [pc |-> "loop", rows |-> Tail(st.rows), result |-> ""]

\* run_worker wakes: the SELECT of the oldest PENDING entries
run_worker_select(w) ==
    /\ worker[w].pc = "sleep"
    /\ \E q \in PendingBatches(outbox) :
          worker' = [worker EXCEPT ![w] =
              IF q = <<>> THEN IdleWorker
              ELSE [pc |-> "loop", result |-> "",
                    rows |-> [i \in 1..Len(q) |->
                        [id |-> q[i], payload |-> outbox[q[i]].payload,
                         retries |-> outbox[q[i]].retries]]]]
    /\ UNCHANGED <<now, tables, ledger, http, resolver, batcher>>

\* the loop body up to the return of submit_settlement: a payload that does
\* not decode is marked FAILED at once, else the ledger is called and answers
run_worker_submit(w, answer) ==
    /\ worker[w].pc = "loop"
    /\ LET st == worker[w]
           row == Head(st.rows)
           error == PayloadError(row.payload)
       IN IF error # ""
          THEN /\ outbox' = mark_failed(outbox, row.id, error)
               /\ worker' = [worker EXCEPT ![w] = NextRow(st)]
               /\ UNCHANGED ledger
          ELSE /\ ledger[row.id].ok + ledger[row.id].err < MaxSubmits
               /\ ledger' = [ledger EXCEPT ![row.id] =
                     IF answer = "ok" THEN [@ EXCEPT !.ok = @ + 1]
                     ELSE [@ EXCEPT !.err = @ + 1]]
               /\ worker' = [worker EXCEPT ![w] =
                     [st EXCEPT !.pc = "update", !.result = answer]]
               /\ UNCHANGED outbox
    /\ UNCHANGED <<now, markets, reports, settlements, batches, batch_items,
                   http, resolver, batcher>>

\* the loop body after submit_settlement has returned: the UPDATE by id
run_worker_update(w) ==
    /\ worker[w].pc = "update"
    /\ LET st == worker[w]
           row == Head(st.rows)
       IN /\ outbox' = IF st.result = "ok" THEN mark_sent(outbox, row.id)
                       ELSE mark_retry(outbox, row.id, row.retries, st.result)
          /\ worker' = [worker EXCEPT ![w] = NextRow(st)]
    /\ UNCHANGED <<now, markets, reports, settlements, batches, batch_items,
                   ledger, http, resolver, batcher>>

\* ---------------------------------------------------------------- process
\* the process stops and is started again: main spawns resolver_loop,
\* batcher_loop and run_worker afresh and requests in flight are lost; the
\* store keeps what was committed.  A stop and restart takes time.
Restart ==
    /\ now < MaxTime
    /\ now' = now + 1
    /\ http' = [c \in Clients |-> IdleRequest]
    /\ resolver' = [r \in Resolvers |-> IdleResolver]
    /\ batcher' = [b \in Batchers |-> IdleBatcher]
    /\ worker' = [w \in Workers |-> IdleWorker]
    /\ UNCHANGED <<tables, ledger>>

\* --------------------------------------------------- stores already settled
\* the store after n markets, each with three agreeing reports, have been
\* closed and finalised at time 0, the outbox rows carrying the given payloads
SettledStore(n, payloads) ==
    LET outcome == try_resolve(<<100, 100, 100>>).val
    IN /\ now = 0
       /\ markets = [m \in 1..n |-> [closes_at |-> 0, status |-> "RESOLVED"]]
       /\ reports = SetToBag({[market_id |-> m, idempotency_key |-> k, value |-> 100] :
                                 m \in 1..n, k \in Keys})
       /\ settlements = [m \in 1..n |-> SettlementRow(m, outcome, 0)]
       /\ outbox = [m \in 1..n |->
                       [OutboxRow(m, outcome, 0) EXCEPT !.payload = payloads[m]]]
       /\ ledger = [m \in 1..n |-> [ok |-> 0, err |-> 0]]
       /\ batches = <<>>
       /\ batch_items = <<>>
       /\ http = [c \in Clients |-> IdleRequest]
       /\ resolver = [r \in Resolvers |-> IdleResolver]
       /\ batcher = [b \in Batchers |-> IdleBatcher]
       /\ worker = [w \in Workers |-> IdleWorker]

\* what the payload column of an outbox row can hold: the JSON finalize_market
\* writes, JSON that is not a SettlementPayload, hash fields that are not hex,
\* hash fields of another length than 32 bytes
PayloadShapes(m) ==
    LET good == SettlementPayload(m, try_resolve(<<100, 100, 100>>).val, 0)
    IN {good,
        [market_id |-> m],
        [good EXCEPT !.market_hash_hex = [valid |-> FALSE, nbytes |-> 0]],
        [good EXCEPT !.leaf_hex = [valid |-> FALSE, nbytes |-> 0]],
        [good EXCEPT !.market_hash_hex = [valid |-> TRUE, nbytes |-> DigestLen - 1]],
        [good EXCEPT !.leaf_hex = [valid |-> TRUE, nbytes |-> DigestLen + 1]]}

\* report values a request can carry (any f64 of a JSON body): negative,
\* zero, and positive ones 1% and 2% apart
ResolveValues == {-100, 0, 100, 101, 102}

ReportKeys == <<"k1", "k2", "k3", "k4", "k5", "k6">>

\* the store after two markets closing at 0 have been created, market 1 has
\* received the reports vs (one idempotency key each), and both were closed
ClosedStore(vs) ==
    /\ now = 0
    /\ markets = [m \in 1..2 |-> [closes_at |-> 0, status |-> "CLOSED"]]
    /\ reports = SetToBag({[market_id |-> 1, idempotency_key |-> ReportKeys[i],
                             value |-> vs[i]] : i \in 1..Len(vs)})
    /\ settlements = <<>>
    /\ outbox = <<>>
    /\ batches = <<>>
    /\ batch_items = <<>>
    /\ ledger = <<>>
    /\ http = [c \in Clients |-> IdleRequest]
    /\ resolver = [r \in Resolvers |-> IdleResolver]
    /\ batcher = [b \in Batchers |-> IdleBatcher]
    /\ worker = [w \in Workers |-> IdleWorker]

\* ------------------------------------------- transactions, step by step
\* The same code with the two ends of each transaction and of each ledger
\* call as steps of their own.  A task holding an open transaction carries
\* it as the field tx of its record; the statements of a transaction take
\* effect in the store at its commit.
InTx(st) == "tx" \in DOMAIN st

\* finalize_market down to state.db.begin()
finalize_market_begin(r) ==
    /\ resolver[r].pc = "finalize"
    /\ LET st == resolver[r]
       IN resolver' = [resolver EXCEPT ![r] =
            [pc |-> "finalize", queue |-> st.queue, now |-> st.now,
             outcome |-> st.outcome, tx |-> [at |-> now]]]
    /\ ~InTx(resolver[r])
    /\ UNCHANGED <<now, tables, ledger, http, batcher, worker>>

\* the task record once its transaction is over (committed, or dropped by
\* the unwinding of a panic, which rolls it back)
ResolverAfterTx(st) ==
    [pc |-> st.pc, queue |-> st.queue, now |-> st.now, outcome |-> st.outcome]

\* a rejected statement logged and skipped, the transaction left as it is
finalize_market_commit_swallow_error(r) ==
    /\ resolver[r].pc = "finalize"
    /\ InTx(resolver[r])
    /\ LET st == resolver[r]
           m == Head(st.queue)
           at == st.tx.at
           next == NextMarket(ResolverAfterTx(st))
       IN IF MarketIdFree(settlements, m) /\ MarketIdFree(outbox, m)
          THEN /\ settlements' = Append(settlements, SettlementRow(m, st.outcome.val, at))
               /\ markets' = resolve_update(markets, m)
               /\ outbox' = Append(outbox, OutboxRow(m, st.outcome.val, at))
               /\ ledger' = Append(ledger, [ok |-> 0, err |-> 0])
               /\ resolver' = [resolver EXCEPT ![r] = next]
          ELSE /\ resolver' = [resolver EXCEPT ![r] =
                    [pc |-> next.pc, queue |-> next.queue, now |-> next.now,
                     outcome |-> next.outcome, tx |-> st.tx]]
               /\ UNCHANGED <<markets, settlements, outbox, ledger>>
    /\ UNCHANGED <<now, reports, batches, batch_items, http, batcher, worker>>

\* finalize_market from the first INSERT to tx.commit(): a rejected
\* statement panics in unwrap() and the transaction is dropped
finalize_market_commit(r) ==
    /\ resolver[r].pc = "finalize"
    /\ InTx(resolver[r])
    /\ LET st == resolver[r]
           m == Head(st.queue)
           at == st.tx.at
       IN IF MarketIdFree(settlements, m) /\ MarketIdFree(outbox, m)
          THEN /\ settlements' = Append(settlements, SettlementRow(m, st.outcome.val, at))
               /\ markets' = resolve_update(markets, m)
               /\ outbox' = Append(outbox, OutboxRow(m, st.outcome.val, at))
               /\ ledger' = Append(ledger, [ok |-> 0, err |-> 0])
               /\ resolver' = [resolver EXCEPT ![r] = NextMarket(ResolverAfterTx(st))]
          ELSE /\ resolver' = [resolver EXCEPT ![r] =
                    [ResolverAfterTx(st) EXCEPT !.pc = "panicked"]]
               /\ UNCHANGED <<markets, settlements, outbox, ledger>>
    /\ UNCHANGED <<now, reports, batches, batch_items, http, batcher, worker>>

\* create_batch from the leaves down to state.db.begin()
create_batch_begin(b) ==
    /\ batcher[b].pc = "commit"
    /\ ~InTx(batcher[b])
    /\ batcher' = [batcher EXCEPT ![b] =
            [pc |-> "commit", rows |-> batcher[b].rows,
             tx |-> [root |-> build_merkle_root(LeavesOf(batcher[b].rows)), at |-> now]]]
    /\ UNCHANGED <<now, tables, ledger, http, resolver, worker>>

\* create_batch from the Batch INSERT to tx.commit()
create_batch_tx_commit(b) ==
    /\ batcher[b].pc = "commit"
    /\ InTx(batcher[b])
    /\ LET rows == batcher[b].rows
           batch_id == Len(batches) + 1
           res == insert_batch_items(batch_items, batch_id, rows)
       IN IF res.ok
          THEN /\ batches' = Append(batches, [merkle_root |-> batcher[b].tx.root,
                                               created_at |-> batcher[b].tx.at])
               /\ batch_items' = res.rows
               /\ batcher' = [batcher EXCEPT ![b] = IdleBatcher]
          ELSE /\ batcher' = [batcher EXCEPT ![b] = [pc |-> "panicked", rows |-> rows]]
               /\ UNCHANGED <<batches, batch_items>>
    /\ UNCHANGED <<now, markets, reports, settlements, outbox, ledger, http,
                   resolver, worker>>

\* the loop body up to the call of submit_settlement: a payload that does
\* not decode is marked FAILED at once, else the call is made
submit_settlement_call(w) ==
    /\ worker[w].pc = "loop"
    /\ LET st == worker[w]
           row == Head(st.rows)
           error == PayloadError(row.payload)
       IN IF error # ""
          THEN /\ outbox' = mark_failed(outbox, row.id, error)
               /\ worker' = [worker EXCEPT ![w] = NextRow(st)]
          ELSE /\ worker' = [worker EXCEPT ![w] = [st EXCEPT !.pc = "submitting"]]
               /\ UNCHANGED outbox
    /\ UNCHANGED <<now, markets, reports, settlements, batches, batch_items,
                   ledger, http, resolver, batcher>>

\* submit_settlement(..).await returns Ok or Err
submit_settlement_return(w, answer) ==
    /\ worker[w].pc = "submitting"
    /\ LET st == worker[w]
           row == Head(st.rows)
       IN /\ ledger[row.id].ok + ledger[row.id].err < MaxSubmits
          /\ ledger' = [ledger EXCEPT ![row.id] =
                IF answer = "ok" THEN [@ EXCEPT !.ok = @ + 1]
                ELSE [@ EXCEPT !.err = @ + 1]]
          /\ worker' = [worker EXCEPT ![w] =
                [st EXCEPT !.pc = "update", !.result = answer]]
    /\ UNCHANGED <<now, tables, http, resolver, batcher>>

\* ------------------------------------------------------- specifications
LedgerAnswers == {"ok", "submit failed"}

HttpNext(C) ==
    \/ \E c \in C, text \in ClosesAtTexts : create_market(c, text)
    \/ \E c \in C, m \in MarketIds, k \in Keys, v \in Values :
          create_report_check(c, m, k, v)
    \/ \E c \in C : create_report_insert(c)

LifecycleNext(R) ==
    \/ \E r \in R : auto_close_markets(r)
    \/ \E r \in R : resolve_markets_select(r)
    \/ \E r \in R : resolve_markets_examine(r)
    \/ \E r \in R : finalize_market(r)

BatchingNext(B) ==
    \/ \E b \in B : create_batch_select(b)
    \/ \E b \in B : create_batch_commit(b)

WorkerNext(W) ==
    \/ \E w \in W : run_worker_select(w)
    \/ \E w \in W, a \in LedgerAnswers : run_worker_submit(w, a)
    \/ \E w \in W : run_worker_update(w)

\* one service instance: every component once
Next ==
    \/ Tick
    \/ HttpNext({1})
    \/ LifecycleNext({1})
    \/ BatchingNext({1})
    \/ WorkerNext({1})

Spec == Init /\ [][Next]_vars

\* several service instances on one store: concurrent requests and
\* concurrent Lifecycle Schedulers
NextLifecycle ==
    \/ Tick
    \/ HttpNext(Clients)
    \/ LifecycleNext(Resolvers)

SpecLifecycle == Init /\ [][NextLifecycle]_vars

\* concurrent Batching Schedulers
NextBatchers ==
    \/ Tick
    \/ HttpNext({1})
    \/ LifecycleNext({1})
    \/ BatchingNext(Batchers)

SpecBatchers == Init /\ [][NextBatchers]_vars

\* concurrent relay workers
NextWorkers ==
    \/ Tick
    \/ HttpNext({1})
    \/ LifecycleNext({1})
    \/ WorkerNext(Workers)

SpecWorkers == Init /\ [][NextWorkers]_vars

\* one service instance that may stop and restart, its relay worker
\* scheduled fairly (run_worker loops forever, sleeping 5 s between cycles)
NextRelay ==
    \/ Tick
    \/ Restart
    \/ HttpNext({1})
    \/ LifecycleNext({1})
    \/ WorkerNext({1})

SpecRelay == Init /\ [][NextRelay]_vars /\ WF_vars(WorkerNext({1}))

\* the relay worker on an outbox whose rows another writer of the shared
\* store may have filled with any payload
InitCorrupt ==
    \E payloads \in [1..MaxEntries -> UNION {PayloadShapes(m) : m \in 1..MaxEntries}] :
        /\ \A m \in 1..MaxEntries : payloads[m] \in PayloadShapes(m)
        /\ SettledStore(MaxEntries, payloads)

NextCorrupt ==
    \/ Tick
    \/ WorkerNext({1})

SpecCorrupt == InitCorrupt /\ [][NextCorrupt]_vars

\* the Lifecycle Scheduler on a closed market with any reports
InitResolve ==
    \E n \in 0..MaxReports : \E vs \in [1..n -> ResolveValues] : ClosedStore(vs)

NextResolve == LifecycleNext({1})

SpecResolve == InitResolve /\ [][NextResolve]_vars

\* the Lifecycle Scheduler scheduled fairly (resolver_loop sleeps 10 s
\* between cycles and runs again) on two CLOSED markets, market 1 holding
\* two or three reports of which one may be 0 or 2% off
InitExamine ==
    \E n \in MinReports - 1..MinReports : \E vs \in [1..n -> {0, 100, 102}] :
        ClosedStore(vs)

SpecExamine == InitExamine /\ [][NextResolve]_vars /\ WF_vars(NextResolve)

\* the Batching Scheduler on a store holding 0..MaxLeaves settlements
InitMerkle ==
    \E n \in 0..MaxLeaves :
        SettledStore(n, [m \in 1..n |->
            SettlementPayload(m, try_resolve(<<100, 100, 100>>).val, 0)])

NextMerkle == BatchingNext({1})

SpecMerkle == InitMerkle /\ [][NextMerkle]_vars

\* the Lifecycle Schedulers on a store holding two OPEN markets created at
\* time 0, closing at 0, at a later time or after the last time modelled;
\* market 1 has received three agreeing reports
InitClose ==
    \E c1, c2 \in 0..MaxTime + 1 :
        /\ now = 0
        /\ markets = <<[closes_at |-> c1, status |-> "OPEN"],
                       [closes_at |-> c2, status |-> "OPEN"]>>
        /\ reports = SetToBag({[market_id |-> 1, idempotency_key |-> k, value |-> 100] :
                                 k \in Keys})
        /\ settlements = <<>>
        /\ outbox = <<>>
        /\ batches = <<>>
        /\ batch_items = <<>>
        /\ ledger = <<>>
        /\ http = [c \in Clients |-> IdleRequest]
        /\ resolver = [r \in Resolvers |-> IdleResolver]
        /\ batcher = [b \in Batchers |-> IdleBatcher]
        /\ worker = [w \in Workers |-> IdleWorker]

NextClose ==
    \/ Tick
    \/ LifecycleNext(Resolvers)

SpecClose == InitClose /\ [][NextClose]_vars


\* two Batching Schedulers beside a Lifecycle Scheduler that is resolving
\* CLOSED markets, each holding three agreeing reports: settlements appear
\* one after the other while batching cycles are under way
InitBatching ==
    /\ now = 0
    /\ markets = [m \in 1..MaxEntries |-> [closes_at |-> 0, status |-> "CLOSED"]]
    /\ reports = SetToBag({[market_id |-> m, idempotency_key |-> k, value |-> 100] :
                             m \in 1..MaxEntries, k \in Keys})
    /\ settlements = <<>>
    /\ outbox = <<>>
    /\ batches = <<>>
    /\ batch_items = <<>>
    /\ ledger = <<>>
    /\ http = [c \in Clients |-> IdleRequest]
    /\ resolver = [r \in Resolvers |-> IdleResolver]
    /\ batcher = [b \in Batchers |-> IdleBatcher]
    /\ worker = [w \in Workers |-> IdleWorker]

NextBatching ==
    \/ LifecycleNext({1})
    \/ BatchingNext(Batchers)

SpecBatching == InitBatching /\ [][NextBatching]_vars

\* the same with every batcher_loop scheduled fairly: it sleeps 30 s between
\* cycles and runs again
SpecBatchingFair ==
    /\ InitBatching
    /\ [][NextBatching]_vars
    /\ \A b \in Batchers : WF_vars(BatchingNext({b}))

\* the relay worker on an outbox holding two entries more than one cycle
\* takes, created before the run began: in the reverse of the order of their
\* ids, two at a time at equal times, or in the order of their ids; the
\* first two may have been relayed already
DrainEntries == WorkerLimit + 2

CreatedAtOrders ==
    {[i \in 1..DrainEntries |-> 0 - i],
     [i \in 1..DrainEntries |-> (i \div 2) - DrainEntries],
     [i \in 1..DrainEntries |-> i - DrainEntries]}

InitDrain ==
    LET outcome == try_resolve(<<100, 100, 100>>).val
    IN \E at \in CreatedAtOrders, sent \in SUBSET {1, 2} :
        /\ now = 0
        /\ markets = [m \in 1..DrainEntries |->
                         [closes_at |-> at[m], status |-> "RESOLVED"]]
        /\ reports = SetToBag({[market_id |-> m, idempotency_key |-> k, value |-> 100] :
                                 m \in 1..DrainEntries, k \in Keys})
        /\ settlements = [m \in 1..DrainEntries |-> SettlementRow(m, outcome, at[m])]
        /\ outbox = [m \in 1..DrainEntries |->
                        [OutboxRow(m, outcome, at[m]) EXCEPT
                            !.status = IF m \in sent THEN "SENT" ELSE "PENDING"]]
        /\ ledger = [m \in 1..DrainEntries |->
                        [ok |-> IF m \in sent THEN 1 ELSE 0, err |-> 0]]
        /\ batches = <<>>
        /\ batch_items = <<>>
        /\ http = [c \in Clients |-> IdleRequest]
        /\ resolver = [r \in Resolvers |-> IdleResolver]
        /\ batcher = [b \in Batchers |-> IdleBatcher]
        /\ worker = [w \in Workers |-> IdleWorker]

\* submit calls the ledger has refused so far
FailedSubmits == SumSeq([i \in 1..Len(ledger) |-> ledger[i].err])

\* run_worker, the ledger refusing at most MaxFailures calls
NextDrain ==
    \/ run_worker_select(1)
    \/ \E a \in LedgerAnswers :
          /\ a = "ok" \/ FailedSubmits < MaxFailures
          /\ run_worker_submit(1, a)
    \/ run_worker_update(1)

SpecDrain == InitDrain /\ [][NextDrain]_vars

\* two Lifecycle Schedulers, a Batching Scheduler and a relay worker on
\* CLOSED markets that hold consensus, with every transaction and every
\* ledger call begun and ended in steps of their own
NextTx ==
    \/ \E r \in Resolvers : auto_close_markets(r)
    \/ \E r \in Resolvers : resolve_markets_select(r)
    \/ \E r \in Resolvers : resolve_markets_examine(r)
    \/ \E r \in Resolvers : finalize_market_begin(r)
    \/ \E r \in Resolvers : finalize_market_commit(r)
    \/ create_batch_select(1)
    \/ create_batch_begin(1)
    \/ create_batch_tx_commit(1)
    \/ run_worker_select(1)
    \/ submit_settlement_call(1)
    \/ \E a \in LedgerAnswers :
          /\ a = "ok" \/ FailedSubmits < MaxFailures
          /\ submit_settlement_return(1, a)
    \/ run_worker_update(1)

SpecTx == InitBatching /\ [][NextTx]_vars

\* one service instance on a store holding an OPEN market that has already
\* received two or three agreeing reports under other idempotency keys
InitReported ==
    \E c \in Times, n \in MinReports - 1..MinReports :
        /\ now = 0
        /\ markets = <<[closes_at |-> c, status |-> "OPEN"]>>
        /\ reports = SetToBag({[market_id |-> 1, idempotency_key |-> ReportKeys[3 + i],
                                 value |-> 100] : i \in 1..n})
        /\ settlements = <<>>
        /\ outbox = <<>>
        /\ batches = <<>>
        /\ batch_items = <<>>
        /\ ledger = <<>>
        /\ http = [c1 \in Clients |-> IdleRequest]
        /\ resolver = [r \in Resolvers |-> IdleResolver]
        /\ batcher = [b \in Batchers |-> IdleBatcher]
        /\ worker = [w \in Workers |-> IdleWorker]

NextReported ==
    \/ Tick
    \/ HttpNext({1})
    \/ LifecycleNext({1})

SpecReported == InitReported /\ [][NextReported]_vars

\* the Lifecycle Scheduler, scheduled fairly, on a store holding one CLOSED
\* market more than a cycle takes: the first or the last holds three
\* agreeing reports, the others none
InitCrowded ==
    /\ now = 0
    /\ markets = [m \in 1..ResolveLimit + 1 |-> [closes_at |-> 0, status |-> "CLOSED"]]
    /\ \E c \in {1, ResolveLimit + 1} :
          reports = SetToBag({[market_id |-> c, idempotency_key |-> k, value |-> 100] :
                                 k \in Keys})
    /\ settlements = <<>>
    /\ outbox = <<>>
    /\ batches = <<>>
    /\ batch_items = <<>>
    /\ ledger = <<>>
    /\ http = [c \in Clients |-> IdleRequest]
    /\ resolver = [r \in Resolvers |-> IdleResolver]
    /\ batcher = [b \in Batchers |-> IdleBatcher]
    /\ worker = [w \in Workers |-> IdleWorker]

NextCrowded ==
    \/ auto_close_markets(1)
    \/ resolve_markets_select_stored(1)
    \/ resolve_markets_examine(1)
    \/ finalize_market(1)

SpecCrowded == InitCrowded /\ [][NextCrowded]_vars /\ WF_vars(NextCrowded)

\* ------------------------------------------------------------- properties
Count(t, m) == Len(RowsOf(t, m))

StatusStep(a, b) ==
    \/ a = b
    \/ a = "OPEN" /\ b = "CLOSED"
    \/ a = "CLOSED" /\ b = "RESOLVED"

\* C1: whatever the HTTP handlers, the Lifecycle Scheduler, the Batching
\* Scheduler and the relay worker do, a market's status changes only by
\* OPEN -> CLOSED or CLOSED -> RESOLVED: never backward, never OPEN -> RESOLVED,
\* and no market row disappears.
C1_StatusMonotone ==
    [][/\ Len(markets') >= Len(markets)
       /\ \A m \in 1..Len(markets) :
             /\ StatusStep(markets[m].status, markets'[m].status)
             /\ markets'[m].closes_at = markets[m].closes_at]_vars

C1_Witness ==
    /\ \E m \in 1..Len(markets) : markets[m].status = "RESOLVED"
    /\ batch_items # <<>>
    /\ \E i \in 1..Len(outbox) : outbox[i].status = "SENT"

\* C2: in every committed state a market has a Settlement row exactly when
\* its status is RESOLVED, and every Settlement refers to a market.
C2_SettlementIffResolved ==
    /\ \A m \in 1..Len(markets) :
          (Count(settlements, m) > 0) <=> (markets[m].status = "RESOLVED")
    /\ \A i \in 1..Len(settlements) : settlements[i].market_id \in 1..Len(markets)

C2_Witness ==
    \E m \in 1..Len(markets), r \in Resolvers :
        /\ markets[m].status = "RESOLVED"
        /\ Count(settlements, m) = 1
        /\ resolver[r].pc = "finalize"
        /\ Head(resolver[r].queue) = m

\* C3: when two Lifecycle Scheduler ticks both read a market as CLOSED with
\* consensus and both run finalize_market, the market has at most one
\* Settlement row.
C3_AtMostOneSettlement ==
    \A m \in 1..Len(markets) : Count(settlements, m) <= 1

C3_Witness ==
    \E r \in Resolvers :
        /\ resolver[r].pc = "panicked"
        /\ Count(settlements, Head(resolver[r].queue)) = 1

ReportCount(t, m) == Len(ReportsOf(t, m))

\* C5: no report row is inserted at a moment when its market is CLOSED or
\* RESOLVED.
C5_InsertOnlyWhileOpen ==
    [][\A m \in 1..Len(markets) :
          ReportCount(reports', m) > ReportCount(reports, m)
              => markets[m].status = "OPEN"]_vars

KeyTaken(t, m, k) ==
    \E row \in BagToSet(t) : row.market_id = m /\ row.idempotency_key = k

\* C6: of the submissions with one (market_id, idempotency_key) exactly one
\* is stored: the table never holds two rows with the same pair; an INSERT
\* for a free pair answers 200 and adds its row, an INSERT for a taken pair
\* answers 409 and leaves the table, hence the stored value, as it was.
C6_Idempotent ==
    /\ [](\A row \in BagToSet(reports) :
            /\ CopiesIn(row, reports) = 1
            /\ \A other \in BagToSet(reports) :
                  other.market_id = row.market_id
                  /\ other.idempotency_key = row.idempotency_key => other = row)
    /\ [][\A c \in Clients :
            http[c].pc = "insert" /\ http'[c].pc = "idle" =>
                LET q == http[c]
                    row == [market_id |-> q.market_id,
                            idempotency_key |-> q.idempotency_key,
                            value |-> q.value]
                IN IF KeyTaken(reports, q.market_id, q.idempotency_key)
                   THEN http'[c].resp = 409 /\ reports' = reports
                   ELSE http'[c].resp = 200
                        /\ reports' = reports (+) SetToBag({row})]_vars

C6_Witness ==
    /\ \E c \in Clients : http[c].resp = 409
    /\ \E c \in Clients : http[c].resp = 200
    /\ BagCardinality(reports) = 1

\* C7: each market_id appears in at most one BatchItem, also when two
\* Batching Scheduler cycles have selected the same unbatched settlements
\* before either commits.
C7_BatchedOnce ==
    \A m \in MarketIds : Count(batch_items, m) <= 1

C7_Witness ==
    \E b \in Batchers :
        /\ batcher[b].pc = "panicked"
        /\ \A i \in 1..Len(batcher[b].rows) :
              Count(batch_items, batcher[b].rows[i].market_id) = 1

Terminal(status) == status \in {"SENT", "FAILED"}

\* C8: once an OutboxEntry is SENT or FAILED no later worker update changes
\* its status, retries or last_error, with any number of relay workers.
C8_TerminalIsFinal ==
    [][\A i \in 1..Len(outbox) :
          Terminal(outbox[i].status) => outbox'[i] = outbox[i]]_vars

\* C9: with a single relay worker an entry's status changes only by
\* PENDING -> SENT or PENDING -> FAILED, every entry the worker holds from
\* its SELECT is still PENDING when it is submitted or updated, and a ledger
\* failure sets FAILED only when the incremented retries exceeds 5.
C9_SingleWorkerTransitions ==
    /\ [](\A i \in 1..Len(worker[1].rows) :
              outbox[worker[1].rows[i].id].status = "PENDING")
    /\ [][\A i \in 1..Len(outbox) :
            outbox'[i].status # outbox[i].status =>
                /\ outbox[i].status = "PENDING"
                /\ Terminal(outbox'[i].status)
                /\ (outbox'[i].status = "FAILED" /\ PayloadError(outbox[i].payload) = ""
                      => /\ outbox'[i].retries = outbox[i].retries + 1
                         /\ outbox'[i].retries > 5)]_vars

C9_Witness ==
    \E i \in 1..Len(outbox) : outbox[i].status = "SENT" /\ outbox[i].retries > 0

InFlight(i) ==
    \E w \in Workers : worker[w].pc = "update" /\ Head(worker[w].rows).id = i

\* C10: an entry with a valid payload whose relay attempts have all failed
\* is PENDING with retries = k after k = 0..5 failed attempts and FAILED
\* with retries = 6 after the 6th; no entry is PENDING with retries > 5.
C10_RetryBudget ==
    \A i \in 1..Len(outbox) :
        /\ outbox[i].status = "PENDING" => outbox[i].retries <= 5
        /\ ledger[i].ok = 0 /\ ~InFlight(i) /\ PayloadError(outbox[i].payload) = "" =>
              /\ outbox[i].retries = ledger[i].err
              /\ ledger[i].err <= 6
              /\ ledger[i].err <= 5 => outbox[i].status = "PENDING"
              /\ ledger[i].err = 6 => outbox[i].status = "FAILED"

C10_Witness ==
    \E i \in 1..Len(outbox) :
        /\ ledger[i] = [ok |-> 0, err |-> 6]
        /\ outbox[i].status = "FAILED"
        /\ outbox[i].retries = 6

C12_SubmitsBounded ==
    \A i \in 1..Len(ledger) : ledger[i].ok + ledger[i].err <= 6

Undecodable(payload) ==
    \/ DOMAIN payload # {"market_id", "market_hash_hex", "leaf_hex", "outcome_u64", "ts"}
    \/ ~payload.market_hash_hex.valid
    \/ ~payload.leaf_hex.valid
    \/ payload.market_hash_hex.nbytes # 32
    \/ payload.leaf_hex.nbytes # 32

\* C13: when the worker comes to an entry whose payload does not decode
\* (not a SettlementPayload, a hash field that is not hex or not 32 bytes) it
\* marks it FAILED with a non-empty last_error in that step, does not call
\* the ledger, leaves retries as it was and goes on with the rest of the
\* rows of the cycle; such an entry is never submitted, retried or handled
\* a second time.
C13_CorruptPayloadFailsAtOnce ==
    /\ [](\A i \in 1..Len(outbox) : Undecodable(outbox[i].payload) =>
            /\ ledger[i] = [ok |-> 0, err |-> 0]
            /\ outbox[i].retries = 0
            /\ outbox[i].status \in {"PENDING", "FAILED"}
            /\ outbox[i].status = "FAILED" =>
                  /\ outbox[i].last_error \notin {"", "NULL"}
                  /\ \A w \in Workers : \A j \in 1..Len(worker[w].rows) :
                        worker[w].rows[j].id # i)
    /\ [][\A w \in Workers :
            worker[w].pc = "loop" /\ worker'[w] # worker[w]
            /\ Undecodable(Head(worker[w].rows).payload) =>
                LET id == Head(worker[w].rows).id
                IN /\ outbox'[id].status = "FAILED"
                   /\ outbox'[id].last_error \notin {"", "NULL"}
                   /\ outbox'[id].retries = outbox[id].retries
                   /\ ledger' = ledger
                   /\ \A j \in 1..Len(outbox) : j # id => outbox'[j] = outbox[j]
                   /\ worker'[w].rows = Tail(worker[w].rows)
                   /\ worker'[w].pc = IF Len(worker[w].rows) > 1 THEN "loop" ELSE "sleep"]_vars

\* the first row of a cycle was corrupt and is FAILED untouched by the
\* ledger; the worker has gone on to the second row and relayed it
C13_Witness ==
    /\ Len(outbox) = 2
    /\ outbox[1].status = "FAILED"
    /\ outbox[1].last_error = "hash/leaf wrong length (expected 32 bytes)"
    /\ ledger[1] = [ok |-> 0, err |-> 0]
    /\ outbox[2].status = "SENT"
    /\ ledger[2] = [ok |-> 1, err |-> 0]

\* C14: when a statement of one market's finalisation is rejected by the
\* store (here the Settlement or OutboxEntry insert, the market having its
\* row already), nothing of that transaction is committed, the scheduler
\* goes on to the next market of the cycle and its loop keeps running.
C14_FailureAbortsOnlyMarket ==
    [][\A r \in Resolvers :
          /\ resolver[r].pc = "finalize"
          /\ resolver'[r] # resolver[r]
          /\ \/ Count(settlements, Head(resolver[r].queue)) > 0
             \/ Count(outbox, Head(resolver[r].queue)) > 0
          => /\ UNCHANGED tables
             /\ resolver'[r] = NextMarket(resolver[r])]_vars

\* C15: a finalisation that runs for a market another tick has already
\* resolved ends without an error, its scheduler loop goes on, and the
\* market's status, Settlement and OutboxEntry stay as the first
\* finalisation left them.
C15_DuplicateTickNoOp ==
    [][\A r \in Resolvers :
          /\ resolver[r].pc = "finalize"
          /\ resolver'[r] # resolver[r]
          /\ markets[Head(resolver[r].queue)].status = "RESOLVED"
          => /\ UNCHANGED <<markets, settlements, outbox>>
             /\ resolver'[r].pc \in {"sleep", "loop"}]_vars

Perms(v) ==
    {[i \in 1..Len(v) |-> v[q[i]]] : q \in Orderings(1..Len(v), Len(v))}

\* C17: try_resolve gives None for every sequence of 0, 1 or 2 values, and
\* the Lifecycle Scheduler never finalises a market with fewer than 3
\* reports: it stays CLOSED.
C17_FewerThanThree ==
    /\ \A n \in 0..2 : \A q \in [1..n -> ResolveValues] : try_resolve(q) = None
    /\ \A m \in 1..Len(markets) :
          LET v == ReportValues(reports, m)
          IN Len(v) < 3 =>
                /\ \A p \in Perms(v) : try_resolve(p) = None
                /\ markets[m].status = "CLOSED"
                /\ \A r \in Resolvers :
                      resolver[r].pc = "finalize" => Head(resolver[r].queue) # m

\* market 1, with two reports, has been examined and left CLOSED
C17_Witness ==
    /\ resolver[1].pc = "loop"
    /\ resolver[1].queue = <<2>>
    /\ ReportCount(reports, 1) = 2
    /\ markets[1].status = "CLOSED"

Least(v) == CHOOSE x \in Range(v) : \A y \in Range(v) : x <= y

Greatest(v) == CHOOSE x \in Range(v) : \A y \in Range(v) : y <= x

\* (max - min) / min <= 1/100 over the rationals, for min # 0
WithinOnePercent(min, max) ==
    IF min > 0 THEN (max - min) * 100 <= min ELSE (max - min) * 100 >= min

Mean(v) == [num |-> SumSeq(v), den |-> Len(v)]

\* C18: for 3 or more values with a non-zero minimum, given in any order,
\* try_resolve gives the mean of all values when (max - min)/min <= 0.01 and
\* None when it is greater (a zero minimum under a positive maximum counts
\* as greater); a spread of exactly 1% is consensus; the scheduler finalises
\* with that mean.
C18_MeanWithinOnePercent ==
    /\ try_resolve(<<101, 100, 100>>) = Some([num |-> 301, den |-> 3])
    /\ \A m \in 1..Len(markets) :
          LET v == ReportValues(reports, m)
          IN Len(v) >= 3 /\ (Least(v) # 0 \/ Greatest(v) > 0) =>
                /\ \A p \in Perms(v) :
                      try_resolve(p) =
                          IF Least(v) # 0 /\ WithinOnePercent(Least(v), Greatest(v))
                          THEN Some(Mean(v)) ELSE None
                /\ \A r \in Resolvers :
                      resolver[r].pc = "finalize" /\ Head(resolver[r].queue) = m =>
                          /\ resolver[r].outcome = Some(Mean(v))
                          /\ WithinOnePercent(Least(v), Greatest(v))

\* four reports exactly 1% apart are about to be finalised with their mean
C18_Witness ==
    /\ resolver[1].pc = "finalize"
    /\ Head(resolver[1].queue) = 1
    /\ ReportCount(reports, 1) = 4
    /\ Least(ReportValues(reports, 1)) = 100
    /\ Greatest(ReportValues(reports, 1)) = 101
    /\ resolver[1].outcome.val.den = 4

\* C19: when the scheduler applies try_resolve to 3 or more values whose
\* minimum is 0, the quotient (max - min)/min is not evaluated: no NaN and no
\* infinite spread is produced.
C19_ZeroMinSpecialCased ==
    [][\A r \in Resolvers :
          /\ resolver[r].pc = "loop"
          /\ resolver'[r] # resolver[r]
          /\ resolver[r].now >= markets[Head(resolver[r].queue)].closes_at
          => LET v == ReportValues(reports, Head(resolver[r].queue))
             IN Len(v) >= 3 /\ Least(v) = 0 =>
                   try_resolve_diff(v) \notin {"NaN", "+inf"}]_vars

\* the root written out for 0..6 leaves: pairs hashed left to right, an
\* unpaired last node hashed with itself, level after level
MerkleReference(l) ==
    LET H(a, b) == HashPair(a, b)
    IN CASE Len(l) = 0 -> ZeroDigest
         [] Len(l) = 1 -> l[1]
         [] Len(l) = 2 -> H(l[1], l[2])
         [] Len(l) = 3 -> H(H(l[1], l[2]), H(l[3], l[3]))
         [] Len(l) = 4 -> H(H(l[1], l[2]), H(l[3], l[4]))
         [] Len(l) = 5 -> H(H(H(l[1], l[2]), H(l[3], l[4])),
                            H(H(l[5], l[5]), H(l[5], l[5])))
         [] Len(l) = 6 -> H(H(H(l[1], l[2]), H(l[3], l[4])),
                            H(H(l[5], l[6]), H(l[5], l[6])))

\* the leaves of batch i, in the order its items were inserted
BatchLeaves(i) ==
    LET items == SelectSeq(batch_items, LAMBDA it : it.batch_id = i)
    IN [j \in 1..Len(items) |->
            SettlementLeaf(RowsOf(settlements, items[j].market_id)[1])]

\* C20: build_merkle_root ends and gives the reference root: the zero
\* digest for no leaf, the leaf for one, hash(A||B) for two,
\* hash(hash(A||B)||hash(C||C)) for three and the pairwise construction
\* beyond, for every prefix of the leaves a Batching Scheduler cycle holds
\* and for the root of every batch it has committed.
C20_MerkleRoot ==
    /\ build_merkle_root(<<>>) = ZeroDigest
    /\ \A b \in Batchers :
          LET l == LeavesOf(batcher[b].rows)
          IN \A k \in 0..Len(l) :
                build_merkle_root(SubSeq(l, 1, k)) = MerkleReference(SubSeq(l, 1, k))
    /\ \A i \in 1..Len(batches) :
          batches[i].merkle_root = MerkleReference(BatchLeaves(i))

\* a committed batch of three settlements: its root's right half is the
\* third leaf hashed with itself
C20_Witness ==
    /\ Len(batches) = 1
    /\ Len(batch_items) = 3
    /\ batches[1].merkle_root.right =
          HashPair(BatchLeaves(1)[3], BatchLeaves(1)[3])
    /\ batches[1].merkle_root.left =
          HashPair(BatchLeaves(1)[1], BatchLeaves(1)[2])

\* C24: a report request is answered 404 when its market does not exist,
\* else 400 when the market is not OPEN, whatever its idempotency_key, and
\* only for an OPEN market does it reach the INSERT, which answers 409 when
\* the (market_id, idempotency_key) pair is stored already; 404, 400 and 409
\* leave the reports as they were.
C24_ReportErrorOrder ==
    /\ [][\A c \in Clients :
            http[c].pc = "idle" /\ http'[c] # http[c] /\ http'[c].route = "reports" =>
                /\ reports' = reports
                /\ (\A m \in MarketIds : m > Len(markets)) => http'[c].resp = 404
                /\ (\A m \in MarketIds : m <= Len(markets) /\ markets[m].status # "OPEN")
                      => http'[c].resp = 400
                /\ (\A m \in MarketIds : m <= Len(markets) /\ markets[m].status = "OPEN")
                      => http'[c].pc = "insert"
                /\ http'[c].resp = 404 => \E m \in MarketIds : m > Len(markets)
                /\ http'[c].resp = 400 =>
                      \E m \in 1..Len(markets) : markets[m].status # "OPEN"
                /\ http'[c].pc = "insert" =>
                      /\ http'[c].market_id <= Len(markets)
                      /\ markets[http'[c].market_id].status = "OPEN"
                /\ http'[c].pc = "idle" => http'[c].resp \in {404, 400}]_vars
    /\ [][\A c \in Clients :
            http[c].pc = "insert" /\ http'[c] # http[c] =>
                /\ http'[c].resp \in {200, 409}
                /\ http'[c].resp = 409 <=>
                      KeyTaken(reports, http[c].market_id, http[c].idempotency_key)
                /\ http'[c].resp = 409 => reports' = reports]_vars

\* one request was answered 404 before the market existed; another, for the
\* market now CLOSED and holding reports, was answered 400
C24_Witness ==
    /\ http[1].route = "reports" /\ http[1].resp = 400
    /\ http[2].route = "reports" /\ http[2].resp = 404
    /\ Len(markets) = 1
    /\ markets[1].status = "CLOSED"
    /\ BagCardinality(reports) = 3

SettlementIndex(m) == CHOOSE i \in 1..Len(settlements) : settlements[i].market_id = m

\* the market ids of batch i's items, by ascending settlement creation
AscendingMarkets(i) ==
    LET ms == {batch_items[j].market_id :
                  j \in {k \in 1..Len(batch_items) : batch_items[k].batch_id = i}}
    IN CHOOSE q \in Orderings(ms, Cardinality(ms)) :
          \A a, b \in 1..Cardinality(ms) :
              a < b => SettlementIndex(q[a]) < SettlementIndex(q[b])

\* C21: the root of a batch is the root of the leaves of its settlements
\* taken in ascending creation order, so it depends on the set of
\* settlements alone and not on the order the store returned them in.
C21_RootOrderIndependent ==
    \A i \in 1..Len(batches) :
        batches[i].merkle_root =
            build_merkle_root(
                [j \in 1..Len(AscendingMarkets(i)) |->
                    SettlementLeaf(settlements[SettlementIndex(AscendingMarkets(i)[j])])])

\* C22: once every Settlement has a BatchItem no step adds a Batch or a
\* BatchItem, and a Batching Scheduler cycle that starts then goes back to
\* sleep from its SELECT.
C22_BatchingIdempotent ==
    [][(\A i \in 1..Len(settlements) :
            Count(batch_items, settlements[i].market_id) >= 1) =>
          /\ batches' = batches
          /\ batch_items' = batch_items
          /\ \A b \in Batchers :
                batcher[b].pc = "sleep" => batcher'[b].pc = "sleep"]_vars

\* three settlements, all in the one batch, the scheduler asleep again
C22_Witness ==
    /\ Len(settlements) = 3
    /\ Len(batches) = 1
    /\ \A i \in 1..3 : Count(batch_items, settlements[i].market_id) = 1
    /\ batcher[1].pc = "sleep"

NoConsensus(m) == ~try_resolve(ReportValues(reports, m)).some

\* C23: a market that is CLOSED while its reports give no consensus is not
\* RESOLVED in any later state.
C23_NoConsensusStaysClosed ==
    \A m \in MarketIds :
        []((m <= Len(markets) /\ markets[m].status = "CLOSED" /\ NoConsensus(m))
              => [](m <= Len(markets) => markets[m].status # "RESOLVED"))

\* C26: an existing OutboxEntry is changed by relay worker steps only; its
\* retries changes only in the UPDATE that follows a failed submit for it,
\* and then by exactly +1; the SENT update and the FAILED update for a
\* payload error leave retries as it was.
C26_RetriesOnlyOnFailedSubmit ==
    [][\A i \in 1..Len(outbox) :
          outbox'[i] # outbox[i] =>
              /\ resolver' = resolver /\ batcher' = batcher /\ http' = http
              /\ \E w \in Workers :
                    /\ worker[w].pc \in {"loop", "update"}
                    /\ Head(worker[w].rows).id = i
                    /\ worker'[w] # worker[w]
                    /\ outbox'[i].retries # outbox[i].retries =>
                          /\ worker[w].pc = "update" /\ worker[w].result # "ok"
                          /\ outbox'[i].retries = outbox[i].retries + 1]_vars

\* why a row was marked FAILED, as the UPDATE that did it recorded it: the
\* budget UPDATE stores the ledger's error, the decode UPDATEs their own text
DecodeErrors ==
    {"bad payload json", "bad market_hash hex", "bad leaf hex",
     "hash/leaf wrong length (expected 32 bytes)"}

\* C27: a FAILED OutboxEntry has retries > 5 exactly when it was marked
\* FAILED for exceeding the retry budget (its payload decodes and its
\* last_error is the ledger's), and retries <= 5 exactly when it was marked
\* FAILED because its payload failed decoding or validation.
C27_FailedCausesDistinguishable ==
    \A i \in 1..Len(outbox) : outbox[i].status = "FAILED" =>
        /\ outbox[i].retries > 5 <=>
              (~Undecodable(outbox[i].payload) /\ outbox[i].last_error = "submit failed")
        /\ outbox[i].retries <= 5 <=>
              (Undecodable(outbox[i].payload) /\ outbox[i].last_error \in DecodeErrors)

\* one entry FAILED at once for its payload with retries 0, the other FAILED
\* after six failed submits with retries 6
C27_Witness ==
    /\ Len(outbox) = 2
    /\ outbox[1].status = "FAILED" /\ outbox[1].last_error \in DecodeErrors
    /\ outbox[1].retries = 0
    /\ outbox[2].status = "FAILED" /\ outbox[2].retries = 6
    /\ ledger[2] = [ok |-> 0, err |-> 6]

Disagree(m) ==
    LET v == ReportValues(reports, m)
    IN \/ Len(v) < 3
       \/ Least(v) > 0 /\ (Greatest(v) - Least(v)) * 100 > Least(v)
       \/ Least(v) = 0 /\ Greatest(v) > 0

C30_BatchWellFormed ==
    /\ [](/\ \A i \in 1..Len(batches) :
                /\ \E j \in 1..Len(batch_items) : batch_items[j].batch_id = i
                /\ batches[i].merkle_root = build_merkle_root(BatchLeaves(i))
          /\ \A j \in 1..Len(batch_items) :
                /\ batch_items[j].batch_id \in 1..Len(batches)
                /\ Count(settlements, batch_items[j].market_id) = 1
                /\ markets[batch_items[j].market_id].status = "RESOLVED")
    /\ [][/\ batches' # batches <=> batch_items' # batch_items
          /\ batches' # batches =>
                /\ Len(batches') = Len(batches) + 1
                /\ \A j \in 1..Len(batch_items') :
                      j > Len(batch_items) => batch_items'[j].batch_id = Len(batches')]_vars

\* one scheduler's transaction was rejected and rolled back after the other
\* had batched the same settlement; a second batch has been committed since
C30_Witness ==
    /\ \E b \in Batchers : batcher[b].pc = "panicked"
    /\ Len(batches) = 2
    /\ Len(batch_items) = 2
    /\ batch_items[1].batch_id = 1 /\ batch_items[2].batch_id = 2

\* C31: with every Batching Scheduler scheduled fairly, each Settlement that
\* exists is followed by a state in which a BatchItem for its market_id
\* exists, two schedulers running their cycles concurrently.
C31_EventuallyBatched ==
    \A m \in 1..MaxEntries :
        [](Count(settlements, m) >= 1 => <>(Count(batch_items, m) >= 1))

\* a scheduler that had selected both settlements lost against the other's
\* commit and stopped; every settlement is batched all the same
C31_Witness ==
    /\ Len(settlements) >= 2
    /\ \E b \in Batchers :
          batcher[b].pc = "panicked" /\ Len(batcher[b].rows) >= 2
    /\ \A i \in 1..Len(settlements) :
          Count(batch_items, settlements[i].market_id) = 1

\* the PENDING entries created before entry i
OlderPending(i) ==
    {j \in PendingIds(outbox) : outbox[j].created_at < outbox[i].created_at}

\* C32: the rows a relay worker cycle takes are at most 10, all PENDING,
\* min(10, number of PENDING) many, in ascending created_at order, no PENDING
\* entry left out is older than one taken, and none taken has 10 or more
\* older PENDING entries; the cycle attempts them from the head, one after
\* the other, and nothing else.
C32_OldestTenInOrder ==
    /\ [][\A w \in Workers :
            worker[w].pc = "sleep" /\ worker'[w] # worker[w] =>
                LET q == worker'[w].rows
                    taken == {q[k].id : k \in 1..Len(q)}
                IN /\ Len(q) <= 10
                   /\ Cardinality(taken) = Len(q)
                   /\ Len(q) = Min2(10, Cardinality(PendingIds(outbox)))
                   /\ taken \subseteq PendingIds(outbox)
                   /\ \A k, l \in 1..Len(q) :
                         k < l => outbox[q[k].id].created_at <= outbox[q[l].id].created_at
                   /\ \A i \in taken : \A j \in PendingIds(outbox) \ taken :
                         outbox[i].created_at <= outbox[j].created_at
                   /\ \A i \in taken : Cardinality(OlderPending(i)) < 10]_vars
    /\ [][\A w \in Workers :
            worker[w].pc # "sleep" /\ worker'[w] # worker[w] =>
                /\ worker'[w].rows \in {worker[w].rows, Tail(worker[w].rows)}
                /\ \A i \in 1..Len(ledger) :
                      ledger'[i] # ledger[i] => i = Head(worker[w].rows).id]_vars

\* a cycle has taken ten of twelve PENDING entries, the newest ones by id
\* first, and has relayed nine of them; entries 1 and 2, the newest by
\* created_at, wait for the next cycle
C32_Witness ==
    /\ Len(outbox) = WorkerLimit + 2
    /\ outbox[1].created_at > outbox[WorkerLimit + 2].created_at
    /\ worker[1].pc = "loop"
    /\ Len(worker[1].rows) = 1
    /\ Head(worker[1].rows).id = 3
    /\ outbox[1].status = "PENDING" /\ ledger[1] = [ok |-> 0, err |-> 0]
    /\ outbox[2].status = "PENDING" /\ ledger[2] = [ok |-> 0, err |-> 0]
    /\ \A i \in 4..WorkerLimit + 2 : ledger[i].ok + ledger[i].err = 1

\* ledger submit calls that have returned so far
ReturnedCalls == SumSeq([i \in 1..Len(ledger) |-> ledger[i].ok + ledger[i].err])

\* C33: a task holds an open transaction only between the begin and the
\* commit of finalize_market or create_batch, never asleep, between markets
\* or stopped; the relay worker holds none at all, so none while its ledger
\* call is in flight; the step in which a ledger call returns is a worker's
\* and writes nothing to the store; an existing outbox row is written only
\* by a worker whose call is not in flight, SENT and retries only after the
\* call has returned.
C33_NoTxAcrossSleepOrSubmit ==
    /\ [](/\ \A r \in Resolvers : InTx(resolver[r]) => resolver[r].pc = "finalize"
          /\ \A b \in Batchers : InTx(batcher[b]) => batcher[b].pc = "commit"
          /\ \A w \in Workers : ~InTx(worker[w]))
    /\ [][ReturnedCalls' # ReturnedCalls =>
            /\ tables' = tables
            /\ resolver' = resolver /\ batcher' = batcher
            /\ \E w \in Workers :
                  worker[w].pc = "submitting" /\ worker'[w].pc = "update"]_vars
    /\ [][\A i \in 1..Len(outbox) :
            outbox'[i] # outbox[i] =>
                \E w \in Workers :
                    /\ worker'[w] # worker[w]
                    /\ Head(worker[w].rows).id = i
                    /\ worker[w].pc \in {"loop", "update"}
                    /\ ReturnedCalls' = ReturnedCalls
                    /\ (outbox'[i].status = "SENT" \/ outbox'[i].retries # outbox[i].retries)
                          => worker[w].pc = "update" /\ worker[w].result # ""]_vars

\* the worker's ledger call is in flight while one Lifecycle Scheduler has
\* a transaction open and the other has had its own rolled back
C33_Witness ==
    /\ worker[1].pc = "submitting"
    /\ \E r \in Resolvers : InTx(resolver[r])
    /\ \E r \in Resolvers : resolver[r].pc = "panicked" /\ ~InTx(resolver[r])
    /\ \A b \in Batchers : batcher[b].pc = "sleep"

\* C34: the outcome of every Settlement is the arithmetic mean of the
\* reports now stored for its market, which number at least 3 and lie
\* within the 1% spread.
C34_OutcomeIsMeanOfReports ==
    \A i \in 1..Len(settlements) :
        LET v == ReportValues(reports, settlements[i].market_id)
        IN /\ Len(v) >= 3
           /\ settlements[i].outcome.num * Len(v) = SumSeq(v) * settlements[i].outcome.den
           /\ WithinOnePercent(Least(v), Greatest(v))

\* C35: an OutboxEntry that is SENT has had a ledger submit return success
\* and has no last_error; an entry becomes SENT only in the UPDATE of a
\* worker whose submit for it has just returned success.
C35_SentImpliesSubmitted ==
    /\ [](\A i \in 1..Len(outbox) :
            outbox[i].status = "SENT" =>
                ledger[i].ok >= 1 /\ outbox[i].last_error = "NULL")
    /\ [][\A i \in 1..Len(outbox) :
            outbox[i].status # "SENT" /\ outbox'[i].status = "SENT" =>
                \E w \in Workers :
                    /\ worker[w].pc = "update" /\ worker'[w] # worker[w]
                    /\ Head(worker[w].rows).id = i
                    /\ worker[w].result = "ok"]_vars

\* an entry SENT on a later attempt, the error of its refused submit cleared
C35_Witness ==
    /\ Len(outbox) = 1
    /\ outbox[1].status = "SENT"
    /\ outbox[1].retries >= 1
    /\ outbox[1].last_error = "NULL"
    /\ ledger[1].err >= 1 /\ ledger[1].ok = 1

\* C36: with the Lifecycle Scheduler scheduled fairly, a CLOSED market whose
\* reports give consensus is RESOLVED in some later state, also when more
\* CLOSED markets without consensus exist than one cycle selects.
C36_ConsensusEventuallyResolved ==
    \A m \in 1..ResolveLimit + 1 :
        []((m <= Len(markets) /\ markets[m].status = "CLOSED" /\ ~NoConsensus(m))
              => <>(m <= Len(markets) /\ markets[m].status = "RESOLVED"))

Magnitude(x) == IF x < 0 THEN 0 - x ELSE x

\* max - min <= 0.01 * |min|, over the integers
AgreeWithinOnePercent(v) ==
    (Greatest(v) - Least(v)) * SpreadDen <= SpreadNum * Magnitude(Least(v))

\* C37: try_resolve returns an outcome only for values that agree within 1%
\* of the magnitude of their minimum: for the 3 or more reports of a market,
\* negative ones included, in any order, an outcome returned, and the one the
\* scheduler holds when it finalises, implies max - min <= 0.01 * |min|.
C37_OutcomeImpliesAgreement ==
    \A m \in 1..Len(markets) :
        LET v == ReportValues(reports, m)
        IN Len(v) >= MinReports =>
              /\ \A p \in Perms(v) : try_resolve(p).some => AgreeWithinOnePercent(v)
              /\ \A r \in Resolvers :
                    resolver[r].pc = "finalize" /\ Head(resolver[r].queue) = m =>
                        AgreeWithinOnePercent(v)

\* C38: for every sequence L of an odd number of leaves greater than 1,
\* build_merkle_root(L) equals build_merkle_root of L with its last leaf
\* appended once more: for every such prefix of the leaves a Batching
\* Scheduler cycle holds and for the root of every committed batch of an odd
\* number of items.
C38_OddLengthCollision ==
    /\ \A b \in Batchers :
          LET l == LeavesOf(batcher[b].rows)
          IN \A k \in 2..Len(l) :
                k % 2 = 1 =>
                    build_merkle_root(SubSeq(l, 1, k)) =
                        build_merkle_root(Append(SubSeq(l, 1, k), l[k]))
    /\ \A i \in 1..Len(batches) :
          LET l == BatchLeaves(i)
          IN Len(l) > 1 /\ Len(l) % 2 = 1 =>
                batches[i].merkle_root = build_merkle_root(Append(l, l[Len(l)]))

\* a committed batch of five settlements whose root is also the root of the
\* six leaves ending with the fifth repeated
C38_Witness ==
    /\ Len(batches) = 1
    /\ Len(batch_items) = 5
    /\ batcher[1].pc = "sleep"
    /\ batches[1].merkle_root =
          build_merkle_root(Append(BatchLeaves(1), BatchLeaves(1)[5]))
    /\ BatchLeaves(1)[5] # BatchLeaves(1)[4]

====
